---- MODULE Spec2Model ----
(***************************************************************************)
(* Window Manager App (src/main.py): the hotkey registry and its rebuild,  *)
(* the settings file (save / load), the process life cycle with its tray   *)
(* icon thread, and the two-step timed minimize sequence.                  *)
(*                                                                         *)
(* Hotkey strings are sequences of one-character strings, so that          *)
(* str.strip, str.replace and the '+'-split of a combination are computed  *)
(* character by character as the code computes them.                       *)
(***************************************************************************)
EXTENDS Integers, Sequences, FiniteSets, Bags, TLC

VARIABLES
    pc,             \* "off" | "running" | "exited" | "crashed": the process
    file,           \* settings.json on disk
    shortcuts_entries, \* self.shortcuts_entries: action name -> text of the entry
    startup_var,    \* self.startup_var
    runKey,         \* the HKCU ...\Run value "WindowManagerApp" exists
    tree,           \* self.tree: sequence of (percentage, hotkey) rows
    hotkeys,        \* self.hotkeys: hotkey string -> action
    handlers,       \* keyboard listener: bag of live (hotkey, callback) handlers
    removers,       \* keyboard._hotkeys, string keys: hotkey -> callback its remover removes
    iconRunning,    \* the pystray icon thread is running (window withdrawn)
    lastOp,         \* the last handler that loaded or saved settings or touched the registry
    mutators,       \* threads that have mutated self.hotkeys since the process started
    dialogs,        \* hotkeys for which the last UI or tray handler called messagebox.showerror
    errlog,         \* hotkeys for which that handler called logger.error
    warnings,       \* number of logger.warning calls of that handler
    now,            \* time.time(), in ticks
    minimize_sequence_started,
    minimize_sequence_start_time,
    firstArm,       \* history: time of the first arm since the controller was last Idle
    lastArm,        \* history: time of the most recent arm
    wasArmed,       \* history: minimize_sequence_started when the last handler began
    batchRan,       \* the last handler entered _minimize_all_windows_on_current_desktop
    batchMonitor,   \* the monitor under the cursor in that batch
    batchFailed,    \* the window whose GetWindowRect raised in that batch (0: none)
    minimizeSent,   \* windows that received ShowWindow(SW_MINIMIZE) in the last handler
    foreground,     \* what GetForegroundWindow returned to the last window action (0: none)
    workArea,       \* monitor_info['Work'] as the last window action read it
    scalePercent,   \* the scale of the last window action, in percent (0: none)
    monitorQueries, \* number of GetMonitorInfo calls of the last window action
    setWindowPos,   \* the SetWindowPos calls of the last window action
    raisedError,    \* the last window action ended with an exception
    unregistered    \* history: the row remove_custom_action unregistered, and its effect

vars == <<pc, file, shortcuts_entries, startup_var, runKey, tree, hotkeys, handlers, removers,
          iconRunning, lastOp, mutators, dialogs, errlog, warnings, now,
          minimize_sequence_started, minimize_sequence_start_time, firstArm, lastArm,
          wasArmed, batchRan, batchMonitor, batchFailed, minimizeSent,
          foreground, workArea, scalePercent, monitorQueries, setWindowPos, raisedError, unregistered>>

configVars == <<pc, file, shortcuts_entries, startup_var, runKey, tree, hotkeys, handlers, removers,
                iconRunning, mutators, dialogs, errlog, warnings>>

seqVars == <<now, minimize_sequence_started, minimize_sequence_start_time, firstArm,
             lastArm, wasArmed, batchRan, batchMonitor, batchFailed, minimizeSent>>

winVars == <<foreground, workArea, scalePercent, monitorQueries, setWindowPos, raisedError>>

(***************************************************************************)
(* Bounds of the model.                                                    *)
(***************************************************************************)
MaxShortcuts == 1     \* at most this many of the four shortcut entries are non-empty
MaxCustom == 1        \* at most this many rows in the custom-action tree
MaxStale == 2         \* handlers live at the listener that no remover of a string removes
TicksPerSecond == 2   \* granularity of the clock
MaxTime == 7          \* the clock stops at this tick

\* if elapsed_time <= 2 (seconds)
SequenceWindow == 2

(***************************************************************************)
(* Strings.                                                                *)
(***************************************************************************)
EmptyStr == << >>
Key_a == <<"a">>
Key_h == <<"h">>
Key_blank == <<" ">>
Name_space == <<"s","p","a","c","e">>
Key_lbracket == <<"[">>
Key_qq == <<"q", "q">>
Name_left_bracket == <<"l","e","f","t"," ","b","r","a","c","k","e","t">>
Name_right_bracket == <<"r","i","g","h","t"," ","b","r","a","c","k","e","t">>
SeqStartKey == <<"c","t","r","l","+","s","h","i","f","t","+","h">>
SeqCompleteKey == <<"c","t","r","l","+","s","h","i","f","t","+","m">>

\* what the user can type into a shortcut entry or the hotkey entry of the dialog
HotkeyChoices == {EmptyStr, Key_blank, Key_lbracket, Name_left_bracket, Key_qq}
Percentages == {50}

ShortcutOrder == <<"resize_80", "fullscreen", "center", "resize_60">>
ShortcutNames == {ShortcutOrder[i] : i \in 1..Len(ShortcutOrder)}

\* not hotkey.strip()
IsBlank(s) == \A i \in 1..Len(s) : s[i] = " "

\* s.replace(symbol, name) for a one-character symbol
RECURSIVE Replace(_, _, _)
Replace(s, symbol, name) ==
    IF s = << >> THEN << >>
    ELSE (IF Head(s) = symbol THEN name ELSE <<Head(s)>>) \o Replace(Tail(s), symbol, name)

\* the three symbols that cannot be written inside a TLA+ string literal
Char_backslash == "BACKSLASH"
Char_apostrophe == "APOSTROPHE"
Char_grave == "GRAVE"

hotkey_replacements ==
    << <<",", <<"c","o","m","m","a">> >>,
       <<".", <<"p","e","r","i","o","d">> >>,
       <<"/", <<"s","l","a","s","h">> >>,
       <<Char_backslash, <<"b","a","c","k","s","l","a","s","h">> >>,
       <<";", <<"s","e","m","i","c","o","l","o","n">> >>,
       <<Char_apostrophe, <<"a","p","o","s","t","r","o","p","h","e">> >>,
       <<"-", <<"m","i","n","u","s">> >>,
       <<"=", <<"e","q","u","a","l">> >>,
       <<Char_grave, <<"g","r","a","v","e">> >>,
       <<"[", Name_left_bracket>>,
       <<"]", Name_right_bracket>>,
       <<" ", Name_space>> >>

\* for symbol, name in hotkey_replacements.items(): hotkey = hotkey.replace(symbol, name)
RECURSIVE ReplaceFrom(_, _)
ReplaceFrom(s, i) ==
    IF i > Len(hotkey_replacements) THEN s
    ELSE ReplaceFrom(Replace(s, hotkey_replacements[i][1], hotkey_replacements[i][2]), i + 1)

NormalizeHotkey(s) == ReplaceFrom(s, 1)

\* the parts of s between occurrences of sep
RECURSIVE SplitOn(_, _, _)
SplitOn(s, sep, acc) ==
    IF s = << >> THEN <<acc>>
    ELSE IF Head(s) = sep THEN <<acc>> \o SplitOn(Tail(s), sep, << >>)
    ELSE SplitOn(Tail(s), sep, Append(acc, Head(s)))

(***************************************************************************)
(* The keyboard library, as main.py uses it.                               *)
(***************************************************************************)
\* key names the listener maps to a key
KnownKeyNames == { <<"c","t","r","l">>, <<"s","h","i","f","t">>, Key_h, <<"m">>,
                   Key_a, Key_lbracket, Name_left_bracket, Name_right_bracket, Name_space }

\* keyboard.add_hotkey raises ValueError for a combination with an unmapped key name
AddHotkeyRaises(hotkey) ==
    LET parts == SplitOn(hotkey, "+", << >>)
    IN  \E i \in 1..Len(parts) : parts[i] \notin KnownKeyNames

Binding(hotkey, action) == [hotkey |-> hotkey, action |-> action]

MapPut(f, k, v) == [x \in DOMAIN f \cup {k} |-> IF x = k THEN v ELSE f[x]]
MapDel(f, k) == [x \in DOMAIN f \ {k} |-> f[x]]
EmptyMap == [x \in {} |-> 0]

\* keyboard.add_hotkey(hotkey, action): one more handler; the remover of the string is overwritten
add_hotkey(kb, hotkey, action) ==
    [handlers |-> kb.handlers (+) SetToBag({Binding(hotkey, action)}),
     removers |-> MapPut(kb.removers, hotkey, action)]

\* keyboard.remove_hotkey(hotkey) raises KeyError when the string has no remover
RemoveHotkeyRaises(kb, hotkey) == hotkey \notin DOMAIN kb.removers

\* keyboard.remove_hotkey(hotkey): the remover of the string removes the handler it was made for
remove_hotkey(kb, hotkey) ==
    [handlers |-> kb.handlers (-) SetToBag({Binding(hotkey, kb.removers[hotkey])}),
     removers |-> MapDel(kb.removers, hotkey)]

(***************************************************************************)
(* The hotkey registry of WindowManagerApp.  A registry state st is the    *)
(* record [hotkeys, kb, dialogs, errlog, warnings].                        *)
(***************************************************************************)
Action(fn, arg) == [fn |-> fn, arg |-> arg]
PredefinedAction(key) ==
    CASE key = "resize_80" -> Action("resize_to_80", 0)
      [] key = "fullscreen" -> Action("fullscreen", 0)
      [] key = "center" -> Action("center_window", 0)
      [] key = "resize_60" -> Action("resize_to_60", 0)
_create_resize_function(percentage) == Action("resize_function", percentage)
StartSequenceAction == Action("_start_minimize_sequence", 0)
CompleteSequenceAction == Action("_complete_minimize_sequence", 0)

\* a variant in which the first ValueError ends the rebuild: nothing later is registered
_register_hotkey_AbortsAfterError(st, hotkey, action) ==
    IF st.dialogs # << >> THEN st
    ELSE IF IsBlank(hotkey) THEN [st EXCEPT !.warnings = @ + 1]
    ELSE IF AddHotkeyRaises(hotkey)
         THEN [st EXCEPT !.dialogs = Append(@, hotkey), !.errlog = Append(@, hotkey)]
         ELSE [st EXCEPT !.kb = add_hotkey(@, hotkey, action),
                         !.hotkeys = MapPut(@, hotkey, action)]

\* a variant that skips only the empty string: whitespace goes on to the listener
_register_hotkey_SkipsEmptyOnly(st, hotkey, action) ==
    IF hotkey = EmptyStr THEN [st EXCEPT !.warnings = @ + 1]
    ELSE IF AddHotkeyRaises(hotkey)
         THEN [st EXCEPT !.dialogs = Append(@, hotkey), !.errlog = Append(@, hotkey)]
         ELSE [st EXCEPT !.kb = add_hotkey(@, hotkey, action),
                         !.hotkeys = MapPut(@, hotkey, action)]

\* _register_hotkey
_register_hotkey(st, hotkey, action) ==
    IF IsBlank(hotkey) THEN [st EXCEPT !.warnings = @ + 1]
    ELSE IF AddHotkeyRaises(hotkey)
         THEN [st EXCEPT !.dialogs = Append(@, hotkey), !.errlog = Append(@, hotkey)]
         ELSE [st EXCEPT !.kb = add_hotkey(@, hotkey, action),
                         !.hotkeys = MapPut(@, hotkey, action)]

\* a variant that reports the KeyError of an unknown hotkey instead of passing
_unregister_hotkey_ReportsUnknown(st, hotkey) ==
    IF RemoveHotkeyRaises(st.kb, hotkey)
    THEN [st EXCEPT !.dialogs = Append(@, hotkey), !.errlog = Append(@, hotkey)]
    ELSE [st EXCEPT !.kb = remove_hotkey(@, hotkey), !.hotkeys = MapDel(@, hotkey)]

\* _unregister_hotkey: the KeyError of keyboard.remove_hotkey is passed over
_unregister_hotkey(st, hotkey) ==
    IF RemoveHotkeyRaises(st.kb, hotkey) THEN st
    ELSE [st EXCEPT !.kb = remove_hotkey(@, hotkey), !.hotkeys = MapDel(@, hotkey)]

\* for hotkey in list(self.hotkeys.keys()): self._unregister_hotkey(hotkey)
RECURSIVE UnregisterEach(_, _)
UnregisterEach(st, keys) ==
    IF keys = {} THEN st
    ELSE LET k == CHOOSE x \in keys : TRUE
         IN  UnregisterEach(_unregister_hotkey(st, k), keys \ {k})

_unregister_all_hotkeys(st) == UnregisterEach(st, DOMAIN st.hotkeys)

RECURSIVE RegisterPredefined(_, _, _)
RegisterPredefined(st, ent, i) ==
    IF i > Len(ShortcutOrder) THEN st
    ELSE RegisterPredefined(
            _register_hotkey(st, ent[ShortcutOrder[i]], PredefinedAction(ShortcutOrder[i])),
            ent, i + 1)

RECURSIVE RegisterCustom(_, _, _)
RegisterCustom(st, tr, i) ==
    IF i > Len(tr) THEN st
    ELSE RegisterCustom(
            _register_hotkey(st, tr[i].hotkey, _create_resize_function(tr[i].percentage)),
            tr, i + 1)

_register_hotkeys(st, ent, tr) ==
    LET s0 == _unregister_all_hotkeys(st)
        s1 == RegisterPredefined(s0, ent, 1)
        s2 == RegisterCustom(s1, tr, 1)
        s3 == _register_hotkey(s2, SeqStartKey, StartSequenceAction)
    IN  _register_hotkey(s3, SeqCompleteKey, CompleteSequenceAction)

\* the registry state a handler starts from: nothing shown or logged yet
RegState == [hotkeys |-> hotkeys, kb |-> [handlers |-> handlers, removers |-> removers],
             dialogs |-> << >>, errlog |-> << >>, warnings |-> 0]
FreshRegState == [hotkeys |-> EmptyMap, kb |-> [handlers |-> EmptyBag, removers |-> EmptyMap],
                  dialogs |-> << >>, errlog |-> << >>, warnings |-> 0]

SetReg(st) ==
    /\ hotkeys' = st.hotkeys
    /\ handlers' = st.kb.handlers
    /\ removers' = st.kb.removers
    /\ dialogs' = st.dialogs
    /\ errlog' = st.errlog
    /\ warnings' = st.warnings

(***************************************************************************)
(* The settings file.                                                      *)
(***************************************************************************)
MissingFile == [kind |-> "missing"]
BadJsonFile == [kind |-> "badjson"]
JsonFile(ent, st, rows) ==
    [kind |-> "json", shortcuts |-> ent, startup |-> st, custom_actions |-> rows]

Row(percentage, hotkey) == [percentage |-> percentage, hotkey |-> hotkey]
NoShortcuts == [k \in ShortcutNames |-> EmptyStr]

\* a file edited by hand: valid JSON whose custom action has no 'hotkey' field
FieldlessFile == JsonFile(NoShortcuts, FALSE, << [percentage |-> 50] >>)

\* json.load raises JSONDecodeError, or action['hotkey'] raises KeyError
LoadRaises(f) ==
    \/ f.kind = "badjson"
    \/ /\ f.kind = "json"
       /\ \E i \in 1..Len(f.custom_actions) :
             {"percentage", "hotkey"} \ DOMAIN f.custom_actions[i] # {}

\* _load_settings when it does not raise: [shortcuts_entries, startup, tree, warnings]
_load_settings(f) ==
    IF f.kind = "missing"
    THEN [shortcuts_entries |-> NoShortcuts, startup |-> FALSE, tree |-> << >>, warnings |-> 1]
    ELSE [shortcuts_entries |-> [k \in ShortcutNames |-> NormalizeHotkey(f.shortcuts[k])],
          startup |-> f.startup,
          tree |-> [i \in 1..Len(f.custom_actions) |->
                       Row(f.custom_actions[i].percentage,
                           NormalizeHotkey(f.custom_actions[i].hotkey))],
          warnings |-> 0]

\* no window action has run; remove_custom_action has not run
NoWindowCall ==
    /\ foreground = 0
    /\ workArea = << >>
    /\ scalePercent = 0
    /\ monitorQueries = 0
    /\ setWindowPos = << >>
    /\ raisedError = FALSE
NoUnregister == [hotkey |-> << >>, known |-> FALSE, changed |-> FALSE, called |-> FALSE]

NonEmptyCount(ent) == Cardinality({k \in ShortcutNames : ent[k] # EmptyStr})

(***************************************************************************)
(* The process: construction, the UI handlers, the tray menu.              *)
(***************************************************************************)
Init ==
    /\ pc = "off"
    /\ file = MissingFile
    /\ shortcuts_entries = NoShortcuts
    /\ startup_var = FALSE
    /\ runKey = FALSE
    /\ tree = << >>
    /\ hotkeys = EmptyMap
    /\ handlers = EmptyBag
    /\ removers = EmptyMap
    /\ iconRunning = FALSE
    /\ lastOp = "none"
    /\ mutators = {}
    /\ dialogs = << >>
    /\ errlog = << >>
    /\ warnings = 0
    /\ now = 0
    /\ minimize_sequence_started = FALSE
    /\ minimize_sequence_start_time = 0
    /\ firstArm = 0
    /\ lastArm = 0
    /\ wasArmed = FALSE
    /\ batchRan = FALSE
    /\ batchMonitor = 0
    /\ batchFailed = 0
    /\ minimizeSent = {}
    /\ NoWindowCall
    /\ unregistered = NoUnregister

\* WindowManagerApp.__init__: _load_settings, _register_hotkeys, _start_minimized
Start ==
    /\ pc # "running"
    /\ lastOp' = "start"
    /\ minimize_sequence_started' = FALSE
    /\ minimize_sequence_start_time' = 0
    /\ UNCHANGED <<file, runKey, now, firstArm, lastArm, wasArmed, batchRan, batchMonitor,
                   batchFailed, minimizeSent>>
    /\ UNCHANGED winVars
    /\ unregistered' = NoUnregister
    /\ IF LoadRaises(file)
       THEN /\ pc' = "crashed"
            /\ shortcuts_entries' = NoShortcuts
            /\ startup_var' = FALSE
            /\ tree' = << >>
            /\ iconRunning' = FALSE
            /\ mutators' = {}
            /\ SetReg(FreshRegState)
       ELSE LET ld == _load_settings(file)
                st == _register_hotkeys([FreshRegState EXCEPT !.warnings = ld.warnings],
                                       ld.shortcuts_entries, ld.tree)
            IN  /\ pc' = "running"
                /\ shortcuts_entries' = ld.shortcuts_entries
                /\ startup_var' = ld.startup
                /\ tree' = ld.tree
                /\ iconRunning' = TRUE
                /\ mutators' = {"ui"}
                /\ SetReg(st)

\* handlers at the listener beyond the one each registered string can remove
StaleCount(kb) == BagCardinality(kb.handlers) - Cardinality(DOMAIN kb.removers)

\* save_settings with the entries holding ent: write settings.json, then _register_hotkeys
save_settings(st, ent, tr) ==
    /\ file' = JsonFile(ent, startup_var, tr)
    /\ shortcuts_entries' = ent
    /\ tree' = tr
    /\ mutators' = mutators \cup {"ui"}
    /\ LET st2 == _register_hotkeys(st, ent, tr)
       IN  /\ StaleCount(st2.kb) <= MaxStale
           /\ SetReg(st2)

UIReady == pc = "running" /\ ~iconRunning

\* the Save Hotkeys button, after the user has typed hotkey into the entry of key
\* (or has left the entries as they are)
SaveHotkeys ==
    /\ UIReady
    /\ \E key \in ShortcutNames, hotkey \in HotkeyChoices :
          LET ent == [shortcuts_entries EXCEPT ![key] = hotkey]
          IN  /\ NonEmptyCount(ent) <= MaxShortcuts
              /\ save_settings(RegState, ent, tree)
    /\ lastOp' = "save"
    /\ UNCHANGED <<pc, startup_var, runKey, iconRunning>>
    /\ UNCHANGED seqVars
    /\ UNCHANGED winVars
    /\ unregistered' = NoUnregister

\* add_custom_action, the dialog returning (percentage, hotkey)
add_custom_action ==
    /\ UIReady
    /\ Len(tree) < MaxCustom
    /\ \E percentage \in Percentages, hotkey \in HotkeyChoices :
          /\ ~IsBlank(hotkey)
          /\ save_settings(_register_hotkey(RegState, hotkey, _create_resize_function(percentage)),
                      shortcuts_entries, Append(tree, Row(percentage, hotkey)))
    /\ lastOp' = "add"
    /\ UNCHANGED <<pc, startup_var, runKey, iconRunning>>
    /\ UNCHANGED seqVars
    /\ UNCHANGED winVars
    /\ unregistered' = NoUnregister

RemoveAt(s, i) == [j \in 1..(Len(s) - 1) |-> IF j < i THEN s[j] ELSE s[j + 1]]

\* remove_custom_action with row i selected
remove_custom_action ==
    /\ UIReady
    /\ \E i \in 1..Len(tree) :
          LET st == _unregister_hotkey(RegState, tree[i].hotkey)
          IN  /\ save_settings(st, shortcuts_entries, RemoveAt(tree, i))
              /\ unregistered' = [hotkey |-> tree[i].hotkey,
                                  known |-> tree[i].hotkey \in DOMAIN hotkeys,
                                  changed |-> st # RegState,
                                  called |-> TRUE]
    /\ lastOp' = "remove"
    /\ UNCHANGED <<pc, startup_var, runKey, iconRunning>>
    /\ UNCHANGED seqVars
    /\ UNCHANGED winVars

\* on_startup_checkbox: the checkbox toggles startup_var, set_startup writes the Run key
on_startup_checkbox ==
    /\ UIReady
    /\ startup_var' = ~startup_var
    /\ runKey' = startup_var'
    /\ UNCHANGED lastOp
    /\ UNCHANGED <<pc, file, shortcuts_entries, tree, hotkeys, handlers, removers, iconRunning,
                   mutators, dialogs, errlog, warnings>>
    /\ UNCHANGED seqVars
    /\ UNCHANGED winVars
    /\ UNCHANGED unregistered

\* the Minimize to Tray button
minimize_to_tray ==
    /\ UIReady
    /\ iconRunning' = TRUE
    /\ UNCHANGED lastOp
    /\ UNCHANGED <<pc, file, shortcuts_entries, startup_var, runKey, tree, hotkeys, handlers, removers,
                   mutators, dialogs, errlog, warnings>>
    /\ UNCHANGED seqVars
    /\ UNCHANGED winVars
    /\ UNCHANGED unregistered

\* restore_window, called by the tray menu on the icon thread
restore_window ==
    /\ pc = "running" /\ iconRunning
    /\ iconRunning' = FALSE
    /\ UNCHANGED lastOp
    /\ UNCHANGED <<pc, file, shortcuts_entries, startup_var, runKey, tree, hotkeys, handlers, removers,
                   mutators, dialogs, errlog, warnings>>
    /\ UNCHANGED seqVars
    /\ UNCHANGED winVars
    /\ UNCHANGED unregistered

\* on_exit on the given thread: _unregister_all_hotkeys (one _unregister_hotkey for each
\* key of self.hotkeys), destroy; mainloop returns and the process, its widgets and
\* its daemon threads (listener, icon) are gone
on_exit(thread) ==
    /\ pc' = "exited"
    /\ mutators' = IF DOMAIN hotkeys = {} THEN mutators ELSE mutators \cup {thread}
    /\ shortcuts_entries' = NoShortcuts
    /\ startup_var' = FALSE
    /\ tree' = << >>
    /\ iconRunning' = FALSE
    /\ SetReg(FreshRegState)
    /\ UNCHANGED <<file, runKey>>
    /\ UNCHANGED seqVars
    /\ UNCHANGED winVars
    /\ unregistered' = NoUnregister

\* exit_app, called by the tray menu on the icon thread
exit_app ==
    /\ pc = "running" /\ iconRunning
    /\ lastOp' = "tray_exit"
    /\ on_exit("tray")

\* WM_DELETE_WINDOW on the main window
WindowClose ==
    /\ UIReady
    /\ lastOp' = "close"
    /\ on_exit("ui")

\* settings.json deleted or edited by hand while the application is not running
ExternalFileEdit ==
    /\ pc # "running"
    /\ file' \in {MissingFile, BadJsonFile, FieldlessFile}
    /\ file' # file
    /\ lastOp' = "file_edit"
    /\ UNCHANGED <<pc, shortcuts_entries, startup_var, runKey, tree, hotkeys, handlers, removers,
                   iconRunning, mutators, dialogs, errlog, warnings>>
    /\ UNCHANGED seqVars
    /\ UNCHANGED winVars
    /\ unregistered' = NoUnregister

Next ==
    \/ Start
    \/ SaveHotkeys
    \/ add_custom_action
    \/ remove_custom_action
    \/ on_startup_checkbox
    \/ minimize_to_tray
    \/ restore_window
    \/ exit_app
    \/ WindowClose
    \/ ExternalFileEdit

Spec == Init /\ [][Next]_vars

(***************************************************************************)
(* The minimize sequence (the two fixed hotkeys, run by the listener).     *)
(***************************************************************************)
RECT(l, t, r, b) == [left |-> l, top |-> t, right |-> r, bottom |-> b]

rects_intersect(a, b) ==
    ~(a.left >= b.right \/ a.right <= b.left \/ a.top >= b.bottom \/ a.bottom <= b.top)

\* win32api.GetMonitorInfo for the two monitors of the desktop, side by side, each
\* with a taskbar along its bottom edge
MonitorInfo ==
    << [Monitor |-> RECT(0, 0, 100, 100), Work |-> RECT(0, 0, 100, 90)],
       [Monitor |-> RECT(100, 0, 200, 100), Work |-> RECT(100, 0, 200, 90)] >>
Monitors == DOMAIN MonitorInfo

\* the top-level windows, by handle, in the order EnumWindows reports them
OwnHwnd == 3
TopLevelWindows ==
    << [rect |-> RECT(150, 10, 190, 50), visible |-> TRUE],    \* 1: on monitor 2
       [rect |-> RECT(0, 0, 100, 100), visible |-> TRUE],      \* 2: fills monitor 1, touches 2
       [rect |-> RECT(20, 20, 60, 60), visible |-> TRUE],      \* 3: the main window of the app
       [rect |-> RECT(10, 10, 50, 50), visible |-> FALSE],     \* 4: hidden, on monitor 1
       [rect |-> RECT(110, 92, 150, 99), visible |-> TRUE],    \* 5: over the taskbar of monitor 2
       [rect |-> RECT(90, 20, 120, 60), visible |-> TRUE] >>   \* 6: spans both monitors
Hwnds == DOMAIN TopLevelWindows

\* enum_handler for one window; b is [sent, raised]; GetWindowRect raises for hwnd = failing
enum_handler(b, hwnd, monitor_rect, failing) ==
    IF ~TopLevelWindows[hwnd].visible \/ hwnd = OwnHwnd THEN b
    ELSE IF hwnd = failing THEN [b EXCEPT !.raised = TRUE]
    ELSE IF rects_intersect(TopLevelWindows[hwnd].rect, monitor_rect)
         THEN [b EXCEPT !.sent = @ \cup {hwnd}]
         ELSE b

\* win32gui.EnumWindows: the enumeration ends when the callback raises
RECURSIVE EnumWindows(_, _, _, _)
EnumWindows(b, hwnd, monitor_rect, failing) ==
    IF hwnd > Len(TopLevelWindows) \/ b.raised THEN b
    ELSE EnumWindows(enum_handler(b, hwnd, monitor_rect, failing), hwnd + 1,
                     monitor_rect, failing)

\* _minimize_all_windows_on_current_desktop with the cursor on the given monitor
_minimize_all_windows_on_current_desktop(monitor, failing) ==
    EnumWindows([sent |-> {}, raised |-> FALSE], 1, MonitorInfo[monitor].Monitor, failing)

HandlerLive(hotkey, action) == BagIn(Binding(hotkey, action), handlers)

\* time.time() advances
Tick ==
    /\ now < MaxTime
    /\ now' = now + 1
    /\ lastOp' = "tick"
    /\ UNCHANGED <<minimize_sequence_started, minimize_sequence_start_time, firstArm,
                   lastArm, wasArmed, batchRan, batchMonitor, batchFailed, minimizeSent>>
    /\ UNCHANGED configVars
    /\ UNCHANGED winVars
    /\ UNCHANGED unregistered

\* a variant that keeps the timestamp of the first arm while already armed
_start_minimize_sequence_KeepsFirstTime ==
    /\ minimize_sequence_started' = TRUE
    /\ minimize_sequence_start_time' =
          (IF minimize_sequence_started THEN minimize_sequence_start_time ELSE now)

\* _start_minimize_sequence
_start_minimize_sequence ==
    /\ minimize_sequence_started' = TRUE
    /\ minimize_sequence_start_time' = now

\* ctrl+shift+h is pressed
Arm ==
    /\ pc = "running"
    /\ HandlerLive(SeqStartKey, StartSequenceAction)
    /\ _start_minimize_sequence
    /\ wasArmed' = minimize_sequence_started
    /\ firstArm' = IF minimize_sequence_started THEN firstArm ELSE now
    /\ lastArm' = now
    /\ lastOp' = "arm"
    /\ batchRan' = FALSE
    /\ batchMonitor' = 0
    /\ batchFailed' = 0
    /\ minimizeSent' = {}
    /\ UNCHANGED now
    /\ UNCHANGED configVars
    /\ UNCHANGED winVars
    /\ UNCHANGED unregistered

\* _complete_minimize_sequence; the cursor is on monitor, GetWindowRect raises for failing
_complete_minimize_sequence(monitor, failing) ==
    IF minimize_sequence_started
          /\ now - minimize_sequence_start_time <= SequenceWindow * TicksPerSecond
    THEN LET b == _minimize_all_windows_on_current_desktop(monitor, failing)
         IN  /\ batchRan' = TRUE
             /\ batchMonitor' = monitor
             /\ batchFailed' = IF b.raised THEN failing ELSE 0
             /\ minimizeSent' = b.sent
             /\ minimize_sequence_started' = (IF b.raised THEN minimize_sequence_started
                                               ELSE FALSE)
    ELSE /\ batchRan' = FALSE
         /\ batchMonitor' = 0
         /\ batchFailed' = 0
         /\ minimizeSent' = {}
         /\ minimize_sequence_started' = FALSE

\* ctrl+shift+m is pressed
Fire ==
    /\ pc = "running"
    /\ HandlerLive(SeqCompleteKey, CompleteSequenceAction)
    /\ \E monitor \in Monitors, failing \in {0} \cup Hwnds : _complete_minimize_sequence(monitor, failing)
    /\ wasArmed' = minimize_sequence_started
    /\ lastOp' = "fire"
    /\ UNCHANGED <<now, minimize_sequence_start_time, firstArm, lastArm>>
    /\ UNCHANGED configVars
    /\ UNCHANGED winVars
    /\ UNCHANGED unregistered

\* the application as constructed with no settings file, minimized to the tray
InitSequence ==
    LET ld == _load_settings(MissingFile)
        st == _register_hotkeys([FreshRegState EXCEPT !.warnings = ld.warnings],
                               ld.shortcuts_entries, ld.tree)
    IN  /\ pc = "running"
        /\ file = MissingFile
        /\ shortcuts_entries = ld.shortcuts_entries
        /\ startup_var = ld.startup
        /\ runKey = FALSE
        /\ tree = ld.tree
        /\ hotkeys = st.hotkeys
        /\ handlers = st.kb.handlers
        /\ removers = st.kb.removers
        /\ iconRunning = TRUE
        /\ lastOp = "start"
        /\ mutators = {"ui"}
        /\ dialogs = st.dialogs
        /\ errlog = st.errlog
        /\ warnings = st.warnings
        /\ now = 0
        /\ minimize_sequence_started = FALSE
        /\ minimize_sequence_start_time = 0
        /\ firstArm = 0
        /\ lastArm = 0
        /\ wasArmed = FALSE
        /\ batchRan = FALSE
        /\ batchMonitor = 0
        /\ batchFailed = 0
        /\ minimizeSent = {}
        /\ NoWindowCall
        /\ unregistered = NoUnregister

NextSequence ==
    \/ Tick
    \/ Arm
    \/ Fire

SequenceSpec == InitSequence /\ [][NextSequence]_vars

(***************************************************************************)
(* The window actions (resize, fullscreen, center), run by the listener.   *)
(***************************************************************************)
MaxCoord == 3         \* work-area coordinates range over -MaxCoord..MaxCoord

\* the work areas GetMonitorInfo can report: right >= left and bottom >= top, on the
\* virtual screen (coordinates left of or above the primary monitor are negative); the
\* vertical span is the horizontal span mirrored about the origin, so that each axis
\* sees every extent at positions of both signs
Coords == (0 - MaxCoord)..MaxCoord
WorkAreas ==
    {RECT(p[1], 0 - p[2], p[2], 0 - p[1]) : p \in {q \in Coords \X Coords : q[2] >= q[1]}}

\* what GetForegroundWindow can return: 0 (no foreground window) or a top-level window
ForegroundChoices == {0, 1}

\* the percentages of the custom action in the settings file the application starts from
CustomPercentages == {20, 150}

\* percent / 100.0 is a binary fraction exactly when percent is a multiple of 25
ExactScale(percent) == (percent * 4) % 100 = 0

\* int(extent * scale), scale = percent / 100.0: the float product of an integer and an
\* inexact scale can lie just below the integer it equals exactly (100 * 0.29 is
\* 28.999999999999996), and int() then truncates to one less; short is that shortfall
FloatShortfalls(extent, percent) ==
    IF ~ExactScale(percent) /\ extent * percent > 0 /\ (extent * percent) % 100 = 0
    THEN {0, 1} ELSE {0}
IntScaled(extent, percent, short) == (extent * percent) \div 100 - short

\* the arguments of one win32gui.SetWindowPos(hwnd, None, left, top, width, height, ...)
SetWindowPosCall(hwnd, left, top, width, height) ==
    [hwnd |-> hwnd, left |-> left, top |-> top, width |-> width, height |-> height]

\* what a window action did: [queries, calls, raised, warnings]
Outcome(queries, calls, raised, logged) ==
    [queries |-> queries, calls |-> calls, raised |-> raised, warnings |-> logged]

\* a variant that falls back to the desktop window (handle 1) when nothing is in front
_get_foreground_window_FallsBackToDesktop(hwnd) ==
    IF hwnd = 0 THEN [hwnd |-> 1, warnings |-> 1] ELSE [hwnd |-> hwnd, warnings |-> 0]

\* _get_foreground_window, GetForegroundWindow returning hwnd; None is 0
_get_foreground_window(hwnd) ==
    IF hwnd = 0 THEN [hwnd |-> 0, warnings |-> 1] ELSE [hwnd |-> hwnd, warnings |-> 0]

\* a variant that centers in a work area whose origin is taken to be (0, 0)
_resize_window_IgnoresOrigin(hwnd, percent, work_area, short, gone) ==
    LET width == IntScaled(work_area.right - work_area.left, percent, short.w)
        height == IntScaled(work_area.bottom - work_area.top, percent, short.h)
        left == ((work_area.right - work_area.left) - width) \div 2
        top == ((work_area.bottom - work_area.top) - height) \div 2
    IN  Outcome(1, << SetWindowPosCall(hwnd, left, top, width, height) >>, gone, 0)

\* _resize_window; the window is gone (destroyed since GetForegroundWindow) or not:
\* SetWindowPos raises for a handle that is no window
_resize_window(hwnd, percent, work_area, short, gone) ==
    LET width == IntScaled(work_area.right - work_area.left, percent, short.w)
        height == IntScaled(work_area.bottom - work_area.top, percent, short.h)
        left == work_area.left + ((work_area.right - work_area.left) - width) \div 2
        top == work_area.top + ((work_area.bottom - work_area.top) - height) \div 2
    IN  Outcome(1, << SetWindowPosCall(hwnd, left, top, width, height) >>, gone, 0)

\* hwnd = self._get_foreground_window(); if hwnd: self._resize_window(hwnd, scale)
ResizeForeground(fg, percent, work_area, short, gone) ==
    LET r == _get_foreground_window(fg)
    IN  IF r.hwnd # 0
        THEN [_resize_window(r.hwnd, percent, work_area, short, gone)
                 EXCEPT !.warnings = r.warnings]
        ELSE Outcome(0, << >>, FALSE, r.warnings)

\* the body of center_window; GetWindowRect raises for a handle that is no window
CenterForeground(fg, work_area, gone) ==
    LET r == _get_foreground_window(fg)
    IN  IF r.hwnd = 0 THEN Outcome(0, << >>, FALSE, r.warnings)
        ELSE IF gone THEN Outcome(0, << >>, TRUE, r.warnings)
        ELSE LET rect == TopLevelWindows[r.hwnd].rect
                 window_width == rect.right - rect.left
                 window_height == rect.bottom - rect.top
                 left == work_area.left
                            + ((work_area.right - work_area.left) - window_width) \div 2
                 top == work_area.top
                            + ((work_area.bottom - work_area.top) - window_height) \div 2
             IN  Outcome(1, << SetWindowPosCall(r.hwnd, left, top, window_width,
                                                window_height) >>,
                         FALSE, r.warnings)

\* the listener has a live handler that calls the action
ActionLive(action) == \E b \in BagToSet(handlers) : b.action = action

\* the listener runs a window action: the record of what it did
WindowAction(name, fg, percent, work_area, out) ==
    /\ lastOp' = name
    /\ foreground' = fg
    /\ scalePercent' = percent
    /\ workArea' = (IF out.queries > 0 THEN work_area ELSE << >>)
    /\ monitorQueries' = out.queries
    /\ setWindowPos' = out.calls
    /\ raisedError' = out.raised
    /\ warnings' = out.warnings
    /\ UNCHANGED <<pc, file, shortcuts_entries, startup_var, runKey, tree, hotkeys, handlers,
                   removers, iconRunning, mutators, dialogs, errlog, unregistered>>
    /\ UNCHANGED seqVars

\* the body shared by resize_to_80, resize_to_60, fullscreen and resize_function
ResizeHotkey(name, percent) ==
    /\ \E fg \in ForegroundChoices, work_area \in WorkAreas, gone \in BOOLEAN :
          \E sw \in FloatShortfalls(work_area.right - work_area.left, percent),
             sh \in FloatShortfalls(work_area.bottom - work_area.top, percent) :
             WindowAction(name, fg, percent, work_area,
                          ResizeForeground(fg, percent, work_area, [w |-> sw, h |-> sh], gone))

resize_to_80 ==
    /\ pc = "running"
    /\ ActionLive(PredefinedAction("resize_80"))
    /\ ResizeHotkey("resize_to_80", 80)

resize_to_60 ==
    /\ pc = "running"
    /\ ActionLive(PredefinedAction("resize_60"))
    /\ ResizeHotkey("resize_to_60", 60)

fullscreen ==
    /\ pc = "running"
    /\ ActionLive(PredefinedAction("fullscreen"))
    /\ ResizeHotkey("fullscreen", 100)

\* the resize_function closure of a custom action
resize_function ==
    /\ pc = "running"
    /\ \E i \in 1..Len(tree) :
          /\ ActionLive(_create_resize_function(tree[i].percentage))
          /\ ResizeHotkey("resize_function", tree[i].percentage)

center_window ==
    /\ pc = "running"
    /\ ActionLive(PredefinedAction("center"))
    /\ \E fg \in ForegroundChoices, work_area \in WorkAreas, gone \in BOOLEAN :
          WindowAction("center_window", fg, 0, work_area,
                       CenterForeground(fg, work_area, gone))

\* settings.json with one shortcut and one custom action configured
ResizeFiles ==
    {JsonFile([NoShortcuts EXCEPT ![key] = Key_a], FALSE, << Row(percentage, Key_h) >>) :
        key \in ShortcutNames, percentage \in CustomPercentages}

\* the application as constructed from one of these files, minimized to the tray
InitResize ==
    \E f \in ResizeFiles :
        LET ld == _load_settings(f)
            st == _register_hotkeys([FreshRegState EXCEPT !.warnings = ld.warnings],
                                   ld.shortcuts_entries, ld.tree)
        IN  /\ pc = "running"
            /\ file = f
            /\ shortcuts_entries = ld.shortcuts_entries
            /\ startup_var = ld.startup
            /\ runKey = FALSE
            /\ tree = ld.tree
            /\ hotkeys = st.hotkeys
            /\ handlers = st.kb.handlers
            /\ removers = st.kb.removers
            /\ iconRunning = TRUE
            /\ lastOp = "start"
            /\ mutators = {"ui"}
            /\ dialogs = st.dialogs
            /\ errlog = st.errlog
            /\ warnings = st.warnings
            /\ now = 0
            /\ minimize_sequence_started = FALSE
            /\ minimize_sequence_start_time = 0
            /\ firstArm = 0
            /\ lastArm = 0
            /\ wasArmed = FALSE
            /\ batchRan = FALSE
            /\ batchMonitor = 0
            /\ batchFailed = 0
            /\ minimizeSent = {}
            /\ NoWindowCall
            /\ unregistered = NoUnregister

NextResize ==
    \/ resize_to_80
    \/ resize_to_60
    \/ fullscreen
    \/ center_window
    \/ resize_function
    \/ Arm

ResizeSpec == InitResize /\ [][NextResize]_vars

(***************************************************************************)
(* Properties of the window actions, checked under ResizeSpec.             *)
(***************************************************************************)
WindowOps == {"resize_to_80", "resize_to_60", "fullscreen", "center_window", "resize_function"}

\* C11: a window action that finds no foreground window (handle 0) queries no monitor,
\* issues no SetWindowPos, raises nothing, logs one warning, and leaves the minimize
\* sequence state and the hotkey registry as they were.
C11_NoForegroundWindowIsNoOp ==
    [][(lastOp' \in WindowOps /\ foreground' = 0) =>
          /\ monitorQueries' = 0
          /\ setWindowPos' = << >>
          /\ ~raisedError'
          /\ warnings' = 1
          /\ dialogs' = dialogs /\ errlog' = errlog
          /\ UNCHANGED <<minimize_sequence_started, minimize_sequence_start_time,
                         hotkeys, handlers, removers>>]_vars

\* a custom resize action ran without a foreground window while the sequence was armed
C11_Witness ==
    /\ lastOp = "resize_function"
    /\ foreground = 0
    /\ minimize_sequence_started
    /\ setWindowPos = << >>

ResizeOps == WindowOps \ {"center_window"}

\* C12: the rectangle a resize action with a scale in (0, 1] passes to SetWindowPos
\* lies inside the work area, and its left and right gaps, and its top and bottom
\* gaps, differ by at most 1.
C12_ScaledRectInsideAndCentered ==
    (lastOp \in ResizeOps /\ setWindowPos # << >> /\ scalePercent \in 1..100) =>
        LET c == setWindowPos[1]
            gapLeft == c.left - workArea.left
            gapRight == workArea.right - (c.left + c.width)
            gapTop == c.top - workArea.top
            gapBottom == workArea.bottom - (c.top + c.height)
        IN  /\ c.width >= 0 /\ c.height >= 0
            /\ gapLeft >= 0 /\ gapRight >= 0 /\ gapTop >= 0 /\ gapBottom >= 0
            /\ gapRight - gapLeft \in {0, 1}
            /\ gapBottom - gapTop \in {0, 1}

\* a resize to 60% of a work area left of and above the primary monitor, with odd gaps
C12_Witness ==
    /\ lastOp = "resize_to_60"
    /\ setWindowPos # << >>
    /\ workArea.left < 0 /\ workArea.right < 0
    /\ workArea.right - workArea.left - setWindowPos[1].width = 1
    /\ setWindowPos[1].width > 0

(***************************************************************************)
(* Properties of the minimize sequence, checked under SequenceSpec.        *)
(***************************************************************************)
WindowTicks == SequenceWindow * TicksPerSecond

Max(a, b) == IF a >= b THEN a ELSE b
Min(a, b) == IF a <= b THEN a ELSE b

\* the two rectangles share interior points
Overlap(a, b) ==
    /\ Max(a.left, b.left) < Min(a.right, b.right)
    /\ Max(a.top, b.top) < Min(a.bottom, b.bottom)

\* the window is visible, is not the main window of the application, and overlaps the
\* full bounds of the monitor
Qualifies(hwnd, monitor) ==
    /\ TopLevelWindows[hwnd].visible
    /\ hwnd # OwnHwnd
    /\ Overlap(TopLevelWindows[hwnd].rect, MonitorInfo[monitor].Monitor)

\* C1: a fire runs the batch exactly when the controller was armed no more than 2.0 s
\* before (2.0 s included); when it does not run the batch no window is minimized; and
\* after every fire the controller is Idle.
C1_FireRunsWithinWindowThenIdle ==
    lastOp = "fire" =>
        /\ batchRan <=> (wasArmed /\ now - lastArm <= WindowTicks)
        /\ ~batchRan => minimizeSent = {}
        /\ ~minimize_sequence_started

\* C2: after an arm, from Idle or from Armed, the controller is Armed with the time of
\* that arm; and a fire runs the batch exactly when the most recent arm is no more than
\* 2.0 s old, however old the first arm is.
C2_ArmSetsTimeOfLatestArm ==
    /\ lastOp = "arm" =>
          minimize_sequence_started /\ minimize_sequence_start_time = now
    /\ lastOp = "fire" => (batchRan <=> (wasArmed /\ now - lastArm <= WindowTicks))

\* a fire that ran the batch although the first arm is older than the window (arm,
\* re-arm, fire)
C2_Witness ==
    /\ lastOp = "fire"
    /\ batchRan
    /\ firstArm < lastArm
    /\ now - firstArm > WindowTicks

\* C3: when the batch runs, a window is sent the minimize instruction exactly when it
\* is visible, is not the main window of the application and overlaps the full bounds
\* of the monitor under the cursor (the window whose rectangle query failed aside).
C3_BatchMinimizesExactlyQualifying ==
    (lastOp = "fire" /\ batchRan) =>
        \A hwnd \in Hwnds \ {batchFailed} :
            hwnd \in minimizeSent <=> Qualifies(hwnd, batchMonitor)

\* C4: when the rectangle query of one window fails during the batch, every other
\* qualifying window is still minimized and the controller ends Idle.
C4_FailureDoesNotAbortBatch ==
    (lastOp = "fire" /\ batchRan /\ batchFailed # 0) =>
        /\ \A hwnd \in Hwnds \ {batchFailed} :
              Qualifies(hwnd, batchMonitor) => hwnd \in minimizeSent
        /\ ~minimize_sequence_started

(***************************************************************************)
(* Properties of the registry and the settings file, checked under Spec.   *)
(***************************************************************************)
RebuildOps == {"start", "save", "add", "remove"}
AfterRebuild == pc = "running" /\ lastOp \in RebuildOps

\* the binding list of the configuration, in the order of the rebuild
ConfiguredBindings(ent, tr) ==
    [i \in 1..Len(ShortcutOrder) |->
        Binding(ent[ShortcutOrder[i]], PredefinedAction(ShortcutOrder[i]))]
    \o [i \in 1..Len(tr) |-> Binding(tr[i].hotkey, _create_resize_function(tr[i].percentage))]
    \o << Binding(SeqStartKey, StartSequenceAction),
          Binding(SeqCompleteKey, CompleteSequenceAction) >>

Registrable(hotkey) == ~IsBlank(hotkey) /\ ~AddHotkeyRaises(hotkey)

\* the bag holding each registrable binding of the list once per occurrence
ExpectedHandlers(ent, tr) ==
    LET L == ConfiguredBindings(ent, tr)
        I == {i \in 1..Len(L) : Registrable(L[i].hotkey)}
    IN  [b \in {L[i] : i \in I} |-> Cardinality({i \in I : L[i] = b})]

\* C5: after every completed rebuild the handlers live at the listener are exactly
\* those of the configuration, each once: nothing stale, nothing twice.
C5_LiveHandlersMatchConfiguration ==
    AfterRebuild => handlers = ExpectedHandlers(shortcuts_entries, tree)

\* C6: a rebuild that follows a rebuild of the same binding list leaves the handlers
\* live at the listener as they were.
C6_RebuildTwiceSameAsOnce ==
    [][(lastOp = "save" /\ lastOp' = "save" /\ shortcuts_entries' = shortcuts_entries /\ tree' = tree)
          => handlers' = handlers]_vars

InSeq(x, s) == \E i \in 1..Len(s) : s[i] = x

\* C7: after a rebuild, a binding of the list whose registration failed is not in the
\* registry and has no live handler, its error was shown and logged, and every
\* registrable binding of the list (the two sequence hotkeys among them) is live.
C7_FailedBindingSkippedRestRegistered ==
    AfterRebuild =>
        LET L == ConfiguredBindings(shortcuts_entries, tree)
        IN  \A i \in 1..Len(L) :
               /\ (~IsBlank(L[i].hotkey) /\ AddHotkeyRaises(L[i].hotkey)) =>
                     /\ L[i].hotkey \notin DOMAIN hotkeys
                     /\ ~BagIn(L[i], handlers)
                     /\ InSeq(L[i].hotkey, dialogs)
                     /\ InSeq(L[i].hotkey, errlog)
               /\ Registrable(L[i].hotkey) =>
                     /\ BagIn(L[i], handlers)
                     /\ L[i].hotkey \in DOMAIN hotkeys

\* a rebuild in which a shortcut failed to register and a custom action after it, and
\* the two sequence hotkeys, are live
C7_Witness ==
    /\ AfterRebuild
    /\ \E k \in ShortcutNames : ~IsBlank(shortcuts_entries[k]) /\ AddHotkeyRaises(shortcuts_entries[k])
    /\ dialogs # << >>
    /\ \E i \in 1..Len(tree) :
          BagIn(Binding(tree[i].hotkey, _create_resize_function(tree[i].percentage)), handlers)
    /\ BagIn(Binding(SeqCompleteKey, CompleteSequenceAction), handlers)

\* C8: the registry is mutated by the primary UI thread only.
C8_RegistryMutatedByUIThreadOnly == mutators \subseteq {"ui"}

Symbols == {hotkey_replacements[i][1] : i \in 1..Len(hotkey_replacements)}
TokenNames == {hotkey_replacements[i][2] : i \in 1..Len(hotkey_replacements)}

\* every key name of the combination is a named token or holds no special symbol
AlreadyNormalized(hotkey) ==
    LET parts == SplitOn(hotkey, "+", << >>)
    IN  \A i \in 1..Len(parts) :
           parts[i] \in TokenNames \/ \A j \in 1..Len(parts[i]) : parts[i][j] \notin Symbols

\* C9: a start that loads a file written by a save, all of whose hotkey strings were
\* already normalized, shows the saved shortcut strings and custom actions again.
C9_SaveLoadRoundTrip ==
    (/\ lastOp = "start"
     /\ pc = "running"
     /\ file.kind = "json"
     /\ \A k \in ShortcutNames : AlreadyNormalized(file.shortcuts[k])
     /\ \A i \in 1..Len(file.custom_actions) :
           AlreadyNormalized(file.custom_actions[i].hotkey))
    => /\ shortcuts_entries = file.shortcuts
       /\ tree = file.custom_actions

\* C10: a start that finds the settings file missing or malformed falls back to the
\* empty defaults, shows nothing, and goes on to register the hotkeys.
C10_BadSettingsFallBackToDefaults ==
    (lastOp = "start" /\ (file.kind = "missing" \/ LoadRaises(file)))
    => /\ pc = "running"
       /\ shortcuts_entries = NoShortcuts
       /\ ~startup_var
       /\ tree = << >>
       /\ dialogs = << >>
       /\ BagIn(Binding(SeqStartKey, StartSequenceAction), handlers)
       /\ BagIn(Binding(SeqCompleteKey, CompleteSequenceAction), handlers)

\* hotkey strings that str.strip empties
BlankStrings == {EmptyStr, Key_blank, <<" ", " ">>}

BlankCount(L) == Cardinality({i \in 1..Len(L) : IsBlank(L[i].hotkey)})

\* C13: registering an empty or whitespace-only hotkey binds nothing, leaves the
\* registry as it is, logs exactly one warning and shows no error; and after a rebuild
\* one warning was logged per such entry, none of them is in the registry, at the
\* listener or in an error, and every registrable binding of the list is live.
C13_BlankHotkeyIsSkippedWithOneWarning ==
    /\ \A h \in BlankStrings :
          _register_hotkey(RegState, h, PredefinedAction("center"))
             = [RegState EXCEPT !.warnings = @ + 1]
    /\ AfterRebuild =>
          LET L == ConfiguredBindings(shortcuts_entries, tree)
          IN  /\ warnings = BlankCount(L)
                               + (IF lastOp = "start" /\ file.kind = "missing" THEN 1 ELSE 0)
              /\ \A h \in DOMAIN hotkeys : ~IsBlank(h)
              /\ \A b \in BagToSet(handlers) : ~IsBlank(b.hotkey)
              /\ \A i \in 1..Len(dialogs) : ~IsBlank(dialogs[i])
              /\ \A i \in 1..Len(errlog) : ~IsBlank(errlog[i])
              /\ \A i \in 1..Len(L) : Registrable(L[i].hotkey) => BagIn(L[i], handlers)

\* a save with a whitespace-only shortcut entry: four warnings (the other three entries
\* are empty), no error, and the custom action and the sequence hotkeys are live
C13_Witness ==
    /\ pc = "running" /\ lastOp = "save"
    /\ \E k \in ShortcutNames : shortcuts_entries[k] = Key_blank
    /\ warnings = 4
    /\ dialogs = << >>
    /\ \E i \in 1..Len(tree) :
          BagIn(Binding(tree[i].hotkey, _create_resize_function(tree[i].percentage)), handlers)
    /\ BagIn(Binding(SeqStartKey, StartSequenceAction), handlers)
    /\ BagIn(Binding(SeqCompleteKey, CompleteSequenceAction), handlers)

\* hotkey ids to unregister: what the user can type, and ids the rebuild registers
UnregisterProbes == HotkeyChoices \cup {Key_a, SeqStartKey, SeqCompleteKey}

\* C14: the registry and the listener know the same hotkey ids; unregistering an id
\* that is not registered changes neither of them and reports nothing; unregistering
\* an id twice leaves what unregistering it once leaves; and remove_custom_action on a
\* row whose hotkey is not registered unregisters nothing.
C14_UnregisterUnknownIsNoOp ==
    /\ DOMAIN removers = DOMAIN hotkeys
    /\ \A h \in UnregisterProbes :
          /\ h \notin DOMAIN hotkeys => _unregister_hotkey(RegState, h) = RegState
          /\ _unregister_hotkey(_unregister_hotkey(RegState, h), h)
                = _unregister_hotkey(RegState, h)
    /\ (lastOp = "remove" /\ unregistered.called /\ ~unregistered.known)
          => ~unregistered.changed

\* a custom action whose hotkey never registered (unmapped key name) was removed
C14_Witness ==
    /\ pc = "running" /\ lastOp = "remove"
    /\ unregistered.called
    /\ ~unregistered.known
    /\ AddHotkeyRaises(unregistered.hotkey)
    /\ BagIn(Binding(SeqStartKey, StartSequenceAction), handlers)

====
